---- MODULE Spec2Model ----
(***************************************************************************)
(* Model of the mobile model tracer's session driver                       *)
(* (torch/csrc/jit/mobile/model_tracer/TracerRunner.cpp): trace_run, the   *)
(* two run_model passes it makes, and recordCustomClassesFromOpSchemas.    *)
(*                                                                         *)
(* Operator names, kernel tags, dtype names and backend names are TLA+     *)
(* strings.  Type-annotation strings and class names are sequences of      *)
(* one-character strings, so that find / find_last_of / substr are         *)
(* computed as the code computes them.                                     *)
(***************************************************************************)
EXTENDS Integers, Sequences, FiniteSets, TLC

(***************************************************************************)
(* Bounds of the model.                                                    *)
(***************************************************************************)
\* Largest number of bundled input tuples a method of a bundle carries.
MaxInputs == 1
\* Largest number of operator names one observed step records.
MaxRec == 1

(***************************************************************************)
(* Fixed tables of the program.                                            *)
(***************************************************************************)
gpu_metal_operators ==
    { "aten::conv2d", "aten::add.Tensor", "aten::add_.Tensor", "aten::addmm",
      "aten::empty.memory_format", "aten::empty_strided",
      "aten::log_softmax.int", "aten::max_pool2d", "aten::mul.Tensor",
      "aten::relu", "aten::relu_", "aten::sigmoid", "aten::sub.Tensor",
      "aten::upsample_nearest2d.vec", "aten::view",
      "aten::adaptive_avg_pool2d", "aten::hardtanh_", "aten::reshape",
      "aten::flatten.using_ints" }

\* Declared in TracerRunner.h: the baseline set merged into tracedOperators.
always_included_traced_ops == { "aten::resize_", "aten::slice.Tensor" }

\* The two quantized engines trace_run selects.
QNNPACK == "QNNPACK"
FBGEMM == "FBGEMM"

\* The four observer kinds trace_run constructs.
ObserverKinds == { "OperatorCall", "KernelDType", "CustomClass", "BuildFeature" }

(***************************************************************************)
(* Strings as character sequences.                                         *)
(***************************************************************************)
npos == -1

\* std::string::find(pat): the lowest 0-based position where pat occurs.
StrFind(s, pat) ==
    LET hits == { i \in 0 .. (Len(s) - Len(pat)) :
                      SubSeq(s, i + 1, i + Len(pat)) = pat }
    IN  IF hits = {} THEN npos
        ELSE CHOOSE i \in hits : \A j \in hits : i <= j

\* std::string::find_last_of(c): the highest 0-based position holding c.
StrFindLastOf(s, c) ==
    LET hits == { i \in 0 .. (Len(s) - 1) : s[i + 1] = c }
    IN  IF hits = {} THEN npos
        ELSE CHOOSE i \in hits : \A j \in hits : j <= i

\* std::string::substr(pos): the suffix starting at 0-based position pos.
StrSubstr(s, pos) == SubSeq(s, pos + 1, Len(s))

\* "__torch__"
TorchMarker == << "_", "_", "t", "o", "r", "c", "h", "_", "_" >>

(***************************************************************************)
(* Maps with a dynamic key set (std::map<std::string, std::set<...>>).     *)
(***************************************************************************)
EmptyMap == [ k \in {} |-> {} ]

\* m[k] = v : creates or overwrites the entry.
MapAssign(m, k, v) ==
    [ x \in (DOMAIN m) \cup {k} |-> IF x = k THEN v ELSE m[x] ]

\* m.insert(first, last) of std::map: a key already in m keeps m's value,
\* a key m lacks is added with the inserted value.
MapInsertRange(m, src) ==
    [ x \in (DOMAIN m) \cup (DOMAIN src) |->
          IF x \in DOMAIN m THEN m[x] ELSE src[x] ]

\* The recorder's write: dtype d is added to the set under tag t.
MapRecord(m, t, d) ==
    [ x \in (DOMAIN m) \cup {t} |->
          IF x = t THEN (IF t \in DOMAIN m THEN m[t] ELSE {}) \cup {d} ELSE m[x] ]

RECURSIVE MapRecordAll(_, _)
MapRecordAll(m, pairs) ==
    IF pairs = {} THEN m
    ELSE LET p == CHOOSE q \in pairs : TRUE
         IN  MapRecordAll(MapRecord(m, p[1], p[2]), pairs \ {p})

(***************************************************************************)
(* The operator registry the tracer host offers (torch::jit::getAllOperators *)
(* and c10::Dispatcher): a fixed sample with schemas that carry a custom   *)
(* class, schemas that carry none, and names without a schema.             *)
(***************************************************************************)
AnnTensor == << "T", "e", "n", "s", "o", "r" >>
AnnTensorOpt == << "T", "e", "n", "s", "o", "r", "?" >>
\* "__torch__.x.LC", a packed linear context
AnnLinearCtx == TorchMarker \o << ".", "x", ".", "L", "C" >>
\* "__torch__.x.CC?", an optional packed convolution context
AnnConvCtxOpt == TorchMarker \o << ".", "x", ".", "C", "C", "?" >>
\* "__torch__Q", a marked annotation that holds no '.'
AnnNoDot == TorchMarker \o << "Q" >>

Schema(n, o, as, rs) ==
    [ name |-> n, overload_name |-> o, arguments |-> as, returns |-> rs ]

\* torch::jit::getAllOperators()
nonDispatcherOperators ==
    << Schema("prepacked::linear_clamp_prepack", "",
              << AnnTensor, AnnTensorOpt >>, << AnnLinearCtx >>),
       Schema("aten::linear", "", << AnnTensor, AnnTensor >>, << AnnTensor >>),
       Schema("prim::unchecked_cast", "", << AnnNoDot >>, << AnnTensor >>) >>

\* c10::Dispatcher::singleton().getAllOpNames(), with findOp(op)->hasSchema()
dispatcherOperators ==
    << [ name |-> "aten::add", overload_name |-> "Tensor", hasSchema |-> TRUE,
         schema |-> Schema("aten::add", "Tensor",
                           << AnnTensor, AnnTensor >>, << AnnTensor >>) ],
       [ name |-> "aten::copy_", overload_name |-> "", hasSchema |-> TRUE,
         schema |-> Schema("aten::copy_", "",
                           << AnnTensor, AnnTensor >>, << AnnTensor >>) ],
       [ name |-> "prepacked::conv2d_clamp_run", overload_name |-> "",
         hasSchema |-> TRUE,
         schema |-> Schema("prepacked::conv2d_clamp_run", "",
                           << AnnTensor, AnnConvCtxOpt >>, << AnnTensor >>) ],
       [ name |-> "aten::linear", overload_name |-> "", hasSchema |-> TRUE,
         schema |-> Schema("aten::linear", "",
                           << AnnTensor, AnnTensor >>, << AnnTensor >>) ],
       [ name |-> "aten::conv2d", overload_name |-> "", hasSchema |-> FALSE,
         schema |-> Schema("aten::conv2d", "", << >>, << >>) ] >>

\* op_name, and op_name + "." + overload_name when the overload is not empty
QualifiedName(name, overload_name) ==
    IF overload_name # "" THEN name \o "." \o overload_name ELSE name

\* result.emplace(key, value): an existing key keeps its value.
MapEmplace(m, k, v) ==
    [ x \in (DOMAIN m) \cup {k} |-> IF x \in DOMAIN m THEN m[x] ELSE v ]

RECURSIVE EmplaceJitOps(_, _)
EmplaceJitOps(result, ops) ==
    IF ops = << >> THEN result
    ELSE LET op == Head(ops)
         IN  EmplaceJitOps(
                 MapEmplace(result, QualifiedName(op.name, op.overload_name), op),
                 Tail(ops))

RECURSIVE EmplaceDispatcherOps(_, _)
EmplaceDispatcherOps(result, ops) ==
    IF ops = << >> THEN result
    ELSE LET op == Head(ops)
         IN  EmplaceDispatcherOps(
                 IF op.hasSchema
                 THEN MapEmplace(result,
                                 QualifiedName(op.name, op.overload_name),
                                 op.schema)
                 ELSE result,
                 Tail(ops))

get_runtime_ops_and_schema ==
    EmplaceDispatcherOps(EmplaceJitOps(EmptyMap, nonDispatcherOperators),
                         dispatcherOperators)

(***************************************************************************)
(* recordCustomClassesFromOpSchemas                                        *)
(***************************************************************************)
\* Variant: substr starts at the last '.', not after it.
record_if_class_KeepDot(loaded, type_name) ==
    IF StrFind(type_name, TorchMarker) # npos
    THEN loaded \cup { StrSubstr(type_name, StrFindLastOf(type_name, ".")) }
    ELSE loaded

\* The lambda record_if_class: the new value of loaded_classes.
record_if_class(loaded, type_name) ==
    IF StrFind(type_name, TorchMarker) # npos
    THEN loaded \cup { StrSubstr(type_name, StrFindLastOf(type_name, ".") + 1) }
    ELSE loaded

RECURSIVE RecordEach(_, _)
RecordEach(loaded, annotations) ==
    IF annotations = << >> THEN loaded
    ELSE RecordEach(record_if_class(loaded, Head(annotations)), Tail(annotations))

\* The body of the loop over ops, for one op_name.
RecordSchemaOf(loaded, op_name, ops_and_schemas) ==
    IF op_name \in DOMAIN ops_and_schemas
    THEN LET schema == ops_and_schemas[op_name]
         IN  RecordEach(RecordEach(loaded, schema.arguments), schema.returns)
    ELSE loaded

RECURSIVE RecordOps(_, _, _)
RecordOps(loaded, ops, ops_and_schemas) ==
    IF ops = {} THEN loaded
    ELSE LET op_name == CHOOSE o \in ops : TRUE
         IN  RecordOps(RecordSchemaOf(loaded, op_name, ops_and_schemas),
                       ops \ {op_name}, ops_and_schemas)

\* The value of loaded_classes after the call.
recordCustomClassesFromOpSchemas(root, traced, loaded) ==
    RecordOps(loaded, root \cup traced, get_runtime_ops_and_schema)

(***************************************************************************)
(* MobileModelRunner: the bundle and what the runner reads from it.        *)
(***************************************************************************)
\* True iff the declared root operators meet the GPU reference table.
set_has_metal_gpu_operators(op_list) == op_list \cap gpu_metal_operators # {}

\* Root-operator sets a bundle may declare.
RootChoices ==
    { {},
      { "aten::linear", "prepacked::linear_clamp_prepack" },
      { "aten::conv2d", "prepacked::conv2d_clamp_run" } }

\* Methods a bundle may carry bundled inputs for.
Methods == { "forward", "encode" }

\* get_many_functions_bundled_inputs(): method name -> number of input tuples.
ManyInputsChoices ==
    UNION { [ ms -> 0 .. MaxInputs ] : ms \in SUBSET Methods }

Bundles ==
    { [ roots |-> r, new_style |-> TRUE, many |-> m, legacy |-> 0 ] :
          r \in RootChoices, m \in ManyInputsChoices }
    \cup
    { [ roots |-> r, new_style |-> FALSE, many |-> EmptyMap, legacy |-> n ] :
          r \in RootChoices, n \in 0 .. MaxInputs }

(***************************************************************************)
(* What the observers may record while a step runs.                        *)
(***************************************************************************)
\* Operator names the dispatcher may report.
RecOps == { "aten::copy_", "prepacked::linear_clamp_run" }
\* <<kernel tag, dtype name>> pairs the kernel recorder may report.
RecKernels == { << "copy_", "Float" >>, << "__unused__", "Int" >> }

OpRecordings == { S \in SUBSET RecOps : Cardinality(S) <= MaxRec }
TagRecordings == { S \in SUBSET RecKernels : Cardinality(S) <= MaxRec }

\* Custom classes that deserializing the bundle looks up.
ClassesLoadedBy(b) ==
    IF "prepacked::linear_clamp_prepack" \in b.roots
    THEN { << "L", "C" >> } ELSE {}

\* Build features that executing a method of the bundle toggles.
FeaturesUsedBy(b) ==
    IF "aten::linear" \in b.roots THEN { "MKLDNN" } ELSE {}

NoResult == [ returned |-> FALSE ]

VARIABLES
    bundle,              \* the model bundle at input_module_path
    pc,                  \* position in trace_run / run_model
    pass,                \* 0 before the first run_model call, then 1, 2
    engine,              \* at::globalContext().qEngine()
    unobserved,          \* c10::ObservedOperators::getUnobservedOperatorList()
    live,                \* observer kinds whose tracer object is alive
    calledOperators,     \* OperatorCallTracer::getCalledOperators()
    calledKernelTags,    \* KernelDTypeTracer::getCalledKernelTags()
    loadedClasses,       \* CustomClassTracer::getLoadedClasses()
    buildFeatures,       \* BuildFeatureTracer::getBuildFeatures()
    root_ops,            \* locals of trace_run
    traced_operators,
    enabled_backends,
    loaded_classes,
    build_features,
    called_kernel_tags,
    todo,                \* entries of bundled_inputs_mapping not yet iterated
    tracer_result,       \* what trace_run returned
    recorded,            \* history: operator names recorded, per phase
    krecorded,           \* history: <<tag, dtype>> pairs recorded
    log                  \* history: the steps taken, in order

vars == << bundle, pc, pass, engine, unobserved, live, calledOperators,
           calledKernelTags, loadedClasses, buildFeatures, root_ops,
           traced_operators, enabled_backends, loaded_classes, build_features,
           called_kernel_tags, todo, tracer_result, recorded, krecorded, log >>

slots == << calledOperators, calledKernelTags, loadedClasses, buildFeatures >>
locals == << root_ops, traced_operators, enabled_backends, loaded_classes,
             build_features, called_kernel_tags >>
history == << recorded, krecorded >>

Phases == { "prior", "setup", "pass1", "pass2" }
Phase == IF pass = 0 THEN "setup" ELSE IF pass = 1 THEN "pass1" ELSE "pass2"

Event(e, m, k) ==
    [ ev |-> e, pass |-> pass, engine |-> engine, method |-> m, n |-> k ]
Step(e) == Event(e, "", 0)

Init ==
    /\ bundle \in Bundles
    /\ pc = "set_engine_a"
    /\ pass = 0
    /\ engine \in { QNNPACK, FBGEMM }
    /\ unobserved \in { {}, { "aten::copy_" } }
    /\ live = {}
    /\ calledOperators \in { {}, { "aten::empty.memory_format" } }
    /\ calledKernelTags = EmptyMap
    /\ loadedClasses = {}
    /\ buildFeatures = {}
    /\ root_ops = {}
    /\ traced_operators = {}
    /\ enabled_backends = {}
    /\ loaded_classes = {}
    /\ build_features = {}
    /\ called_kernel_tags = EmptyMap
    /\ todo = {}
    /\ tracer_result = NoResult
    /\ recorded = [ p \in Phases |->
                       IF p = "prior" THEN calledOperators ELSE {} ]
    /\ krecorded = {}
    /\ log = << >>

(***************************************************************************)
(* The recorders behind the observers.  An operator on the unobserved list *)
(* is not reported; a recorder writes only while its observer is alive.    *)
(***************************************************************************)
ObservedOps(ops) == IF "OperatorCall" \in live THEN ops \ unobserved ELSE {}
ObservedTags(tags) == IF "KernelDType" \in live THEN tags ELSE {}

\* Code runs under observation and reports ops and tags.
Observe(ops, tags) ==
    /\ calledOperators' = calledOperators \cup ObservedOps(ops)
    /\ calledKernelTags' = MapRecordAll(calledKernelTags, ObservedTags(tags))
    /\ recorded' = [ recorded EXCEPT ![Phase] = @ \cup ObservedOps(ops) ]
    /\ krecorded' = krecorded \cup ObservedTags(tags)

\* Variant: the tracers are not scope-bound, an exception leaves them alive.
Throw_NoUnwind(e) ==
    /\ pc' = "failed"
    /\ log' = Append(log, Step(e))
    /\ UNCHANGED << bundle, pass, engine, unobserved, live, slots, locals,
                    todo, tracer_result, history >>

\* An exception leaves trace_run: the stack unwinds, nothing is returned.
Throw(e) ==
    /\ pc' = "failed"
    /\ live' = {}
    /\ log' = Append(log, Step(e))
    /\ UNCHANGED << bundle, pass, engine, unobserved, slots, locals, todo,
                    tracer_result, history >>

(***************************************************************************)
(* trace_run, before the passes.                                           *)
(***************************************************************************)
SetQEngineA ==
    /\ pc = "set_engine_a"
    /\ engine' = QNNPACK
    /\ pc' = "clear"
    /\ log' = Append(log, Step("setQEngine"))
    /\ UNCHANGED << bundle, pass, unobserved, live, slots, locals, todo,
                    tracer_result, history >>

\* Variant: the list is not cleared.
UnobservedAfterClear_Kept(list) == list

\* getUnobservedOperatorList().clear();
UnobservedAfterClear(list) == {}

ClearUnobserved ==
    /\ pc = "clear"
    /\ unobserved' = UnobservedAfterClear(unobserved)
    /\ pc' = "construct"
    /\ log' = Append(log, Step("clear_unobserved"))
    /\ UNCHANGED << bundle, pass, engine, live, slots, locals, todo,
                    tracer_result, history >>

ConstructObservers ==
    /\ pc = "construct"
    /\ live' = ObserverKinds
    /\ pc' = "setup"
    /\ log' = Append(log, Step("construct_observers"))
    /\ UNCHANGED << bundle, pass, engine, unobserved, slots, locals, todo,
                    tracer_result, history >>

call_setup_methods ==
    /\ pc = "setup"
    /\ \E ops \in OpRecordings, tags \in TagRecordings : Observe(ops, tags)
    /\ pc' = "rm_load"
    /\ pass' = 1
    /\ log' = Append(log, Step("call_setup_methods"))
    /\ UNCHANGED << bundle, engine, unobserved, live, loadedClasses,
                    buildFeatures, locals, todo, tracer_result >>

(***************************************************************************)
(* run_model                                                               *)
(***************************************************************************)
\* root_ops = module_runner.get_root_operators();
RootOpsAfterLoad(old, declared) == declared

\* Variant: the reference table is not inserted.
RootOpsGpu_NoInsert(r) == r

\* root_ops.insert(gpu_metal_operators.begin(), gpu_metal_operators.end());
RootOpsGpu(r) == r \cup gpu_metal_operators

\* called_kernel_tags["__unused__"] = {"Float"};
KernelTagsGpu(kt) == MapAssign(kt, "__unused__", { "Float" })

\* enabled_backends.insert("Metal GPU");
BackendsGpu(b) == b \cup { "Metal GPU" }

\* enabled_backends.insert("CPU");
BackendsCpu(b) == b \cup { "CPU" }

\* Where control goes when run_model returns.
AfterRunModel == IF pass = 1 THEN "set_engine_b" ELSE "collect"

\* Number of input tuples the bundle carries, under either convention.
BundledInputCount(b) ==
    IF b.new_style
    THEN Cardinality({ m \in DOMAIN b.many : b.many[m] > 0 })
    ELSE b.legacy

\* MobileModelRunner module_runner(input_module_path, 0), get_root_operators()
LoadPermissive ==
    /\ pc = "rm_load"
    /\ \/ /\ root_ops' = RootOpsAfterLoad(root_ops, bundle.roots)
          /\ loadedClasses' =
                 loadedClasses \cup (IF "CustomClass" \in live
                                     THEN ClassesLoadedBy(bundle) ELSE {})
          /\ pc' = "rm_classify"
          /\ log' = Append(log, Step("load_permissive"))
          /\ UNCHANGED << bundle, pass, engine, unobserved, live,
                          calledOperators, calledKernelTags, buildFeatures,
                          traced_operators, enabled_backends, loaded_classes,
                          build_features, called_kernel_tags, todo,
                          tracer_result, history >>
       \/ Throw("load_permissive_failed")

\* The branch taken at set_has_metal_gpu_operators(root_ops), and the three
\* accumulator updates of the GPU branch.
ClassifyGpu ==
    /\ pc = "rm_classify"
    /\ set_has_metal_gpu_operators(root_ops)
    /\ root_ops' = RootOpsGpu(root_ops)
    /\ called_kernel_tags' = KernelTagsGpu(called_kernel_tags)
    /\ enabled_backends' = BackendsGpu(enabled_backends)
    /\ pc' = "rm_gpu_inputs"
    /\ log' = Append(log, Step("inferred_gpu"))
    /\ UNCHANGED << bundle, pass, engine, unobserved, live, slots,
                    traced_operators, loaded_classes, build_features, todo,
                    tracer_result, history >>

\* module_runner.for_each_tensor_in_bundled_inputs(consume_tensor), GPU branch
GpuConsumeInputs ==
    /\ pc = "rm_gpu_inputs"
    /\ IF BundledInputCount(bundle) > 0
       THEN /\ \E ops \in OpRecordings, tags \in TagRecordings :
                   Observe(ops, tags)
            /\ log' = Append(log, Step("consume_input"))
       ELSE UNCHANGED << calledOperators, calledKernelTags, history, log >>
    /\ pc' = AfterRunModel
    /\ UNCHANGED << bundle, pass, engine, unobserved, live, loadedClasses,
                    buildFeatures, locals, todo, tracer_result >>

\* Variant: the CPU branch is not an else branch, it also runs for a GPU
\* bundle once the GPU branch is done.
ClassifyCpu_NoElse ==
    /\ pc \in { "rm_classify", "rm_gpu_inputs" }
    /\ pc = "rm_gpu_inputs" \/ ~ set_has_metal_gpu_operators(root_ops)
    /\ enabled_backends' = BackendsCpu(enabled_backends)
    /\ pc' = "rm_reload"
    /\ log' = Append(log, Step("inferred_cpu"))
    /\ UNCHANGED << bundle, pass, engine, unobserved, live, slots, root_ops,
                    traced_operators, loaded_classes, build_features,
                    called_kernel_tags, todo, tracer_result, history >>

ClassifyCpu ==
    /\ pc = "rm_classify"
    /\ ~ set_has_metal_gpu_operators(root_ops)
    /\ enabled_backends' = BackendsCpu(enabled_backends)
    /\ pc' = "rm_reload"
    /\ log' = Append(log, Step("inferred_cpu"))
    /\ UNCHANGED << bundle, pass, engine, unobserved, live, slots, root_ops,
                    traced_operators, loaded_classes, build_features,
                    called_kernel_tags, todo, tracer_result, history >>

\* Variant: a failed reload is caught and the pass goes on.
LoadStandard_Swallow ==
    /\ pc = "rm_reload"
    /\ pc' = "rm_cpu_inputs"
    /\ \/ log' = Append(log, Step("load_standard"))
       \/ log' = Append(log, Step("load_standard_failed"))
    /\ UNCHANGED << bundle, pass, engine, unobserved, live, slots, locals,
                    todo, tracer_result, history >>

\* MobileModelRunner mobile_module_runner(input_module_path)
LoadStandard ==
    /\ pc = "rm_reload"
    /\ \/ /\ loadedClasses' =
                 loadedClasses \cup (IF "CustomClass" \in live
                                     THEN ClassesLoadedBy(bundle) ELSE {})
          /\ pc' = "rm_cpu_inputs"
          /\ log' = Append(log, Step("load_standard"))
          /\ UNCHANGED << bundle, pass, engine, unobserved, live,
                          calledOperators, calledKernelTags, buildFeatures,
                          locals, todo, tracer_result, history >>
       \/ Throw("load_standard_failed")

\* module_runner.for_each_tensor_in_bundled_inputs(consume_tensor), CPU branch
CpuConsumeInputs ==
    /\ pc = "rm_cpu_inputs"
    /\ IF BundledInputCount(bundle) > 0
       THEN /\ \E ops \in OpRecordings, tags \in TagRecordings :
                   Observe(ops, tags)
            /\ log' = Append(log, Step("consume_input"))
       ELSE UNCHANGED << calledOperators, calledKernelTags, history, log >>
    /\ pc' = "rm_style"
    /\ UNCHANGED << bundle, pass, engine, unobserved, live, loadedClasses,
                    buildFeatures, locals, todo, tracer_result >>

\* has_new_style_bundled_inputs() holds: get_many_functions_bundled_inputs()
FetchManyInputs ==
    /\ pc = "rm_style"
    /\ bundle.new_style
    /\ todo' = DOMAIN bundle.many
    /\ pc' = "rm_new_loop"
    /\ log' = Append(log, Step("get_many_functions_bundled_inputs"))
    /\ UNCHANGED << bundle, pass, engine, unobserved, live, slots, locals,
                    tracer_result, history >>

\* run_with_inputs executes the method once per input tuple and the results
\* are consumed; with no tuple nothing executes and there is no result.
RunAndConsume(method, n) ==
    IF n > 0
    THEN /\ \E ops \in OpRecordings, tags \in TagRecordings :
                Observe(ops, tags)
         /\ buildFeatures' =
                buildFeatures \cup (IF "BuildFeature" \in live
                                    THEN FeaturesUsedBy(bundle) ELSE {})
         /\ log' = log \o << Event("run_method", method, n),
                             Event("consume_result", method, n) >>
    ELSE UNCHANGED << calledOperators, calledKernelTags, buildFeatures,
                      history, log >>

\* One iteration of: for (auto& entry : bundled_inputs_mapping)
RunNewStyleEntry ==
    /\ pc = "rm_new_loop"
    /\ \E function_name \in todo :
          \/ /\ RunAndConsume(function_name, bundle.many[function_name])
             /\ todo' = todo \ { function_name }
             /\ pc' = "rm_new_loop"
             /\ UNCHANGED << bundle, pass, engine, unobserved, live,
                             loadedClasses, locals, tracer_result >>
          \/ /\ bundle.many[function_name] > 0
             /\ Throw("run_failed")

\* The loop over bundled_inputs_mapping ends.
EndNewStyleLoop ==
    /\ pc = "rm_new_loop"
    /\ todo = {}
    /\ pc' = AfterRunModel
    /\ UNCHANGED << bundle, pass, engine, unobserved, live, slots, locals,
                    todo, tracer_result, history, log >>

\* get_all_bundled_inputs() throws when the bundle carries no legacy inputs.
get_all_bundled_inputs_throws(b) == b.legacy = 0

\* The else branch: get_all_bundled_inputs(), run_with_inputs, consume results
RunLegacy ==
    /\ pc = "rm_style"
    /\ ~ bundle.new_style
    /\ \/ /\ ~ get_all_bundled_inputs_throws(bundle)
          /\ RunAndConsume("forward", bundle.legacy)
          /\ pc' = AfterRunModel
          /\ UNCHANGED << bundle, pass, engine, unobserved, live,
                          loadedClasses, locals, todo, tracer_result >>
       \/ /\ get_all_bundled_inputs_throws(bundle)
          /\ Throw("no_bundled_inputs")
       \/ /\ ~ get_all_bundled_inputs_throws(bundle)
          /\ Throw("run_failed")

\* at::globalContext().setQEngine(at::QEngine::FBGEMM), between the passes
SetQEngineB ==
    /\ pc = "set_engine_b"
    /\ engine' = FBGEMM
    /\ pass' = 2
    /\ pc' = "rm_load"
    /\ log' = Append(log, Step("setQEngine"))
    /\ UNCHANGED << bundle, unobserved, live, slots, locals, todo,
                    tracer_result, history >>

(***************************************************************************)
(* trace_run, after the passes.                                            *)
(***************************************************************************)
\* traced_operators = op_tracer.getCalledOperators();
CollectTraced ==
    /\ pc = "collect"
    /\ traced_operators' = calledOperators
    /\ pc' = "recover"
    /\ log' = Append(log, Step("collect_traced"))
    /\ UNCHANGED << bundle, pass, engine, unobserved, live, slots, root_ops,
                    enabled_backends, loaded_classes, build_features,
                    called_kernel_tags, todo, tracer_result, history >>

\* recordCustomClassesFromOpSchemas(root_ops, traced_operators, loaded_classes);
RecoverClasses ==
    /\ pc = "recover"
    /\ loaded_classes' = recordCustomClassesFromOpSchemas(
                             root_ops, traced_operators, loaded_classes)
    /\ pc' = "merge_kernel_tags"
    /\ log' = Append(log, Step("recover_classes"))
    /\ UNCHANGED << bundle, pass, engine, unobserved, live, slots, root_ops,
                    traced_operators, enabled_backends, build_features,
                    called_kernel_tags, todo, tracer_result, history >>

\* called_kernel_tags.insert(getCalledKernelTags().begin(), ...end());
MergeKernelTagsInto(kt, slot) == MapInsertRange(kt, slot)

MergeKernelTags ==
    /\ pc = "merge_kernel_tags"
    /\ called_kernel_tags' = MergeKernelTagsInto(called_kernel_tags, calledKernelTags)
    /\ pc' = "merge_baseline"
    /\ log' = Append(log, Step("merge_kernel_tags"))
    /\ UNCHANGED << bundle, pass, engine, unobserved, live, slots, root_ops,
                    traced_operators, enabled_backends, loaded_classes,
                    build_features, todo, tracer_result, history >>

\* Variant: the baseline set is not inserted.
MergeBaselineInto_NoInsert(t) == t

\* Variant: the baseline set is assigned, not inserted.
MergeBaselineInto_Assign(t) == always_included_traced_ops

\* traced_operators.insert(always_included_traced_ops.begin(), ...end());
MergeBaselineInto(t) == t \cup always_included_traced_ops

MergeBaseline ==
    /\ pc = "merge_baseline"
    /\ traced_operators' = MergeBaselineInto(traced_operators)
    /\ pc' = "merge_classes"
    /\ log' = Append(log, Step("merge_baseline"))
    /\ UNCHANGED << bundle, pass, engine, unobserved, live, slots, root_ops,
                    enabled_backends, loaded_classes, build_features,
                    called_kernel_tags, todo, tracer_result, history >>

\* loaded_classes.insert(getLoadedClasses().begin(), ...end());
MergeClasses ==
    /\ pc = "merge_classes"
    /\ loaded_classes' = loaded_classes \cup loadedClasses
    /\ pc' = "merge_features"
    /\ log' = Append(log, Step("merge_classes"))
    /\ UNCHANGED << bundle, pass, engine, unobserved, live, slots, root_ops,
                    traced_operators, enabled_backends, build_features,
                    called_kernel_tags, todo, tracer_result, history >>

\* build_features.insert(getBuildFeatures().begin(), ...end());
MergeFeatures ==
    /\ pc = "merge_features"
    /\ build_features' = build_features \cup buildFeatures
    /\ pc' = "return"
    /\ log' = Append(log, Step("merge_features"))
    /\ UNCHANGED << bundle, pass, engine, unobserved, live, slots, root_ops,
                    traced_operators, enabled_backends, loaded_classes,
                    called_kernel_tags, todo, tracer_result, history >>

\* TracerResult tracer_result = {...}; return tracer_result;
\* The four tracer objects go out of scope.
Return ==
    /\ pc = "return"
    /\ tracer_result' = [ returned |-> TRUE,
                          root_ops |-> root_ops,
                          traced_operators |-> traced_operators,
                          called_kernel_tags |-> called_kernel_tags,
                          loaded_classes |-> loaded_classes,
                          build_features |-> build_features,
                          enabled_backends |-> enabled_backends ]
    /\ live' = {}
    /\ pc' = "returned"
    /\ log' = Append(log, Step("return"))
    /\ UNCHANGED << bundle, pass, engine, unobserved, slots, locals, todo,
                    history >>

Next ==
    \/ SetQEngineA
    \/ ClearUnobserved
    \/ ConstructObservers
    \/ call_setup_methods
    \/ LoadPermissive
    \/ ClassifyGpu
    \/ GpuConsumeInputs
    \/ ClassifyCpu
    \/ LoadStandard
    \/ CpuConsumeInputs
    \/ FetchManyInputs
    \/ RunNewStyleEntry
    \/ EndNewStyleLoop
    \/ RunLegacy
    \/ SetQEngineB
    \/ CollectTraced
    \/ RecoverClasses
    \/ MergeKernelTags
    \/ MergeBaseline
    \/ MergeClasses
    \/ MergeFeatures
    \/ Return

Spec == Init /\ [][Next]_vars

(***************************************************************************)
(* recordCustomClassesFromOpSchemas on its own: the call is made on        *)
(* arbitrary operator sets and an arbitrary loaded_classes.                *)
(***************************************************************************)
RecoverRootOps ==
    { "prepacked::linear_clamp_prepack", "prepacked::conv2d_clamp_run",
      "aten::linear", "aten::add.Tensor", "aten::conv2d", "aten::view" }
RecoverTracedOps ==
    { "prim::unchecked_cast", "aten::copy_", "prepacked::linear_clamp_prepack" }
PriorClasses == { << "P" >>, << "L", "C" >> }

InitRecover ==
    /\ bundle = [ roots |-> {}, new_style |-> FALSE, many |-> EmptyMap,
                  legacy |-> MaxInputs ]
    /\ pc = "recover"
    /\ pass = 2
    /\ engine = FBGEMM
    /\ unobserved = {}
    /\ live = ObserverKinds
    /\ calledOperators = {}
    /\ calledKernelTags = EmptyMap
    /\ loadedClasses = {}
    /\ buildFeatures = {}
    /\ root_ops \in SUBSET RecoverRootOps
    /\ traced_operators \in SUBSET RecoverTracedOps
    /\ enabled_backends = {}
    /\ loaded_classes \in SUBSET PriorClasses
    /\ build_features = {}
    /\ called_kernel_tags = EmptyMap
    /\ todo = {}
    /\ tracer_result = NoResult
    /\ recorded = [ p \in Phases |-> {} ]
    /\ krecorded = {}
    /\ log = << >>

SpecRecover == InitRecover /\ [][RecoverClasses]_vars

(***************************************************************************)
(* Properties                                                              *)
(***************************************************************************)
Returned == tracer_result.returned
IsGpuBundle == set_has_metal_gpu_operators(bundle.roots)
Events(names) == { i \in DOMAIN log : log[i].ev \in names }

\* C1: every manifest trace_run returns has the always-included baseline
\* operator set inside tracedOperators, whatever the bundle is and whatever
\* the operator-call observer recorded, nothing included.
C1_BaselineAlwaysTraced ==
    Returned => always_included_traced_ops \subseteq tracer_result.traced_operators

\* C1 witness: a manifest is returned although no operator call was recorded
\* and the operator-call slot is empty.
C1_Witness ==
    /\ Returned
    /\ calledOperators = {}
    /\ tracer_result.traced_operators = always_included_traced_ops

\* C2: for a GPU-oriented bundle the returned manifest enables "Metal GPU",
\* its rootOperators hold the whole gpu_metal_operators table, and kernelTags
\* has "Float" under the reserved tag "__unused__".
C2_GpuManifest ==
    (Returned /\ IsGpuBundle) =>
        /\ "Metal GPU" \in tracer_result.enabled_backends
        /\ gpu_metal_operators \subseteq tracer_result.root_ops
        /\ "__unused__" \in DOMAIN tracer_result.called_kernel_tags
        /\ "Float" \in tracer_result.called_kernel_tags["__unused__"]

\* C2 witness: a manifest is returned for a GPU-oriented bundle whose declared
\* root operators are not all in the table, after the kernel recorder wrote
\* under the reserved tag.
C2_Witness ==
    /\ Returned
    /\ IsGpuBundle
    /\ ~ (bundle.roots \subseteq gpu_metal_operators)
    /\ "__unused__" \in DOMAIN calledKernelTags

\* C3: over a GPU-oriented bundle no pass of the session executes a method,
\* reloads the bundle in standard mode or applies consume_tensor to a result;
\* the hook is applied to bundled-input tensors only.
C3_GpuNeverExecutes ==
    IsGpuBundle =>
        Events({ "run_method", "load_standard", "consume_result",
                 "inferred_cpu" }) = {}

\* C3 witness: both passes over a GPU-oriented bundle with bundled inputs are
\* done and each applied the hook to the bundled inputs.
C3_Witness ==
    /\ Returned
    /\ IsGpuBundle
    /\ \A p \in { 1, 2 } :
           \E i \in Events({ "consume_input" }) : log[i].pass = p

\* C4: when a load of the bundle fails (permissive load or standard reload,
\* first or second pass) the session ends there in failure: the failed load
\* is the last step taken, no step is enabled after it, and no manifest is
\* returned.
C4_LoadFailureIsFatal ==
    \A i \in Events({ "load_permissive_failed", "load_standard_failed" }) :
        /\ i = Len(log)
        /\ pc = "failed"
        /\ ~ ENABLED Next
        /\ ~ Returned

\* C4 witness: the standard reload fails in the second pass, after a first
\* pass that completed.
C4_Witness ==
    /\ log # << >>
    /\ log[Len(log)].ev = "load_standard_failed"
    /\ log[Len(log)].pass = 2
    /\ \E i \in Events({ "run_method" }) : log[i].pass = 1

\* C5 (as claimed): for a bundle that is not GPU-oriented and for which
\* neither bundled-input convention yields inputs, no pass completes and no
\* manifest is returned.
C5_NoInputsIsFatal ==
    (~ IsGpuBundle /\ BundledInputCount(bundle) = 0) =>
        /\ ~ Returned
        /\ pc \notin { "set_engine_b", "collect" }

\* C6 (as claimed): tracedOperators of the returned manifest equals the
\* union of the first pass's and the second pass's operator-call recordings.
C6_TracedIsUnionOfPasses ==
    Returned =>
        tracer_result.traced_operators = recorded["pass1"] \cup recorded["pass2"]

\* C6 (amended): tracedOperators of the returned manifest equals the union of
\* the two passes' recordings, of what the operator-call slot held when the
\* first pass started (its content at construction and what
\* call_setup_methods recorded) and of the always-included baseline set; the
\* union does not depend on which pass recorded which operator.
C6_TracedIsUnionPlusBaseline ==
    Returned =>
        tracer_result.traced_operators =
            UNION { recorded[p] : p \in Phases } \cup always_included_traced_ops

\* C6 witness: a manifest is returned after the two passes recorded different,
\* non-overlapping operator sets.
C6_Witness ==
    /\ Returned
    /\ recorded["pass1"] # {}
    /\ recorded["pass2"] # {}
    /\ recorded["pass1"] \cap recorded["pass2"] = {}

HasMarker(a) ==
    \E i \in 1 .. Len(a) :
        /\ i + Len(TorchMarker) - 1 <= Len(a)
        /\ \A j \in 1 .. Len(TorchMarker) : a[i + j - 1] = TorchMarker[j]

\* The text after the final '.' of the annotation (all of it without a '.').
AfterFinalDot(a) ==
    LET dots == { i \in 1 .. Len(a) : a[i] = "." }
    IN  IF dots = {} THEN a
        ELSE LET last == CHOOSE i \in dots : \A j \in dots : j <= i
             IN  [ k \in 1 .. (Len(a) - last) |-> a[last + k] ]

\* The annotations of the registered schemas of the operators in ops.
AnnotationsOf(ops) ==
    UNION { { get_runtime_ops_and_schema[op].arguments[i] :
                  i \in DOMAIN get_runtime_ops_and_schema[op].arguments }
            \cup
            { get_runtime_ops_and_schema[op].returns[i] :
                  i \in DOMAIN get_runtime_ops_and_schema[op].returns } :
            op \in ops \cap DOMAIN get_runtime_ops_and_schema }

\* C8: recordCustomClassesFromOpSchemas adds to loadedCustomClasses exactly
\* the text after the final '.' of every marker-bearing argument or return
\* annotation of the registered schemas of rootOperators and tracedOperators;
\* an operator without a registered schema and a schema without a marked
\* annotation add nothing, and what loadedCustomClasses held is kept.
C8_RecoveryAddsExactlyMarkedNames ==
    [][ pc = "recover" =>
            loaded_classes' =
                loaded_classes \cup
                { AfterFinalDot(a) :
                      a \in { b \in AnnotationsOf(root_ops \cup traced_operators) :
                                  HasMarker(b) } } ]_vars

\* C8 witness: recovery has run over operators with a marked schema, with an
\* unmarked schema and with no schema; it added a class name and kept an
\* entry it could not have produced.
C8_Witness ==
    /\ pc = "merge_kernel_tags"
    /\ { "prepacked::conv2d_clamp_run", "aten::linear", "aten::view" }
           \subseteq root_ops
    /\ << "P" >> \in loaded_classes
    /\ << "C", "C", "?" >> \in loaded_classes

RunModelEvents ==
    { "load_permissive", "inferred_gpu", "inferred_cpu", "load_standard",
      "consume_input", "get_many_functions_bundled_inputs", "run_method",
      "consume_result" }

InPass ==
    pc \in { "rm_load", "rm_classify", "rm_gpu_inputs", "rm_reload",
             "rm_cpu_inputs", "rm_style", "rm_new_loop" }

\* C9: a session that returns a manifest cleared the operator-suppression
\* list before any pass started, ran exactly two passes over the bundle, the
\* second after the first had finished, with QNNPACK active during the whole
\* first pass and FBGEMM during the whole second, and collected the
\* operator-call recordings and ran schema recovery only after the second
\* pass had finished.
C9_SessionOrder ==
    /\ InPass => /\ unobserved = {}
                 /\ engine = (IF pass = 1 THEN QNNPACK ELSE FBGEMM)
    /\ Returned =>
        /\ \E c \in Events({ "clear_unobserved" }) :
               \A i \in Events(RunModelEvents) : c < i
        /\ { log[i].pass : i \in Events({ "load_permissive" }) } = { 1, 2 }
        /\ Cardinality(Events({ "load_permissive" })) = 2
        /\ \A i, j \in Events(RunModelEvents) :
               (log[i].pass = 1 /\ log[j].pass = 2) => i < j
        /\ \A i \in Events(RunModelEvents) :
               log[i].engine = (IF log[i].pass = 1 THEN QNNPACK ELSE FBGEMM)
        /\ \A i \in Events({ "collect_traced", "recover_classes" }) :
               \A j \in Events(RunModelEvents) : j < i
        /\ \E i \in Events({ "collect_traced" }) :
               \E j \in Events({ "recover_classes" }) : i < j

\* C9 witness: a manifest is returned for a session that started with FBGEMM
\* active and executed methods in both passes.
C9_Witness ==
    /\ Returned
    /\ log[1].engine = FBGEMM
    /\ \A p \in { 1, 2 } : \E i \in Events({ "run_method" }) : log[i].pass = p

\* Is every tag of kt a tag of kt2, with every dtype it holds?
KernelTagsWithin(kt, kt2) ==
    \A t \in DOMAIN kt : t \in DOMAIN kt2 /\ kt[t] \subseteq kt2[t]

\* C10 (as claimed): rootOperators, enabledBackends and kernelTags only grow:
\* no step of the session removes an element, a tag or a dtype from them.
C10_AccumulatorsOnlyGrow ==
    [][ /\ root_ops \subseteq root_ops'
        /\ enabled_backends \subseteq enabled_backends'
        /\ KernelTagsWithin(called_kernel_tags, called_kernel_tags') ]_vars

Ended == pc \in { "returned", "failed" }

\* C11: on every exit path of a session (normal return, failure of the
\* permissive load or of the standard reload, failure while fetching or
\* executing bundled inputs, in either pass) the four observers have been
\* deregistered: once trace_run has ended no observer of any kind is alive;
\* until then, from their construction on, all four are.
C11_NoObserverAfterSession ==
    /\ Ended => live = {}
    /\ (~ Ended /\ Events({ "construct_observers" }) # {}) => live = ObserverKinds
    /\ Ended => Events({ "construct_observers" }) # {}

\* C11 witness: the session ended by a failure while executing bundled inputs
\* in the second pass, after the observers had recorded operator calls.
C11_Witness ==
    /\ pc = "failed"
    /\ log[Len(log)].ev = "run_failed"
    /\ log[Len(log)].pass = 2
    /\ recorded["pass1"] # {}
    /\ live = {}

\* The position of trace_run at which the slot of each observer kind is read:
\* getCalledOperators(), getCalledKernelTags(), getLoadedClasses(),
\* getBuildFeatures().
SlotReadAt(kind) ==
    CASE kind = "OperatorCall" -> "collect"
      [] kind = "KernelDType"  -> "merge_kernel_tags"
      [] kind = "CustomClass"  -> "merge_classes"
      [] kind = "BuildFeature" -> "merge_features"

\* C12 (as claimed): each of the four recording slots is read by the session
\* driver only after the observer of that kind has been destroyed: at every
\* step that reads a slot to build the manifest, no observer of that kind is
\* alive.
C12_SlotsReadAfterObserversDestroyed ==
    [][ \A kind \in ObserverKinds :
            (pc = SlotReadAt(kind) /\ pc' # pc) => kind \notin live ]_vars

====
